---- MODULE Spec2Model ----
(***************************************************************************)
(* Model of pdf_to_voice/main.py: a script that opens simple.pdf, extracts *)
(* the text of every page (skipping pages whose extraction raises), joins  *)
(* the fragments with a single space and, if the joined text is not blank, *)
(* hands it to gTTS and saves the result as Audio.mp3; otherwise it prints *)
(* a one-line message.                                                     *)
(*                                                                         *)
(* A Python str is modelled as the sequence of its Unicode code points     *)
(* ("a b" is <<97, 32, 98>>).                                              *)
(* One action models one statement of the script (one loop iteration for   *)
(* the for loop).  The environment (the content of simple.pdf, the         *)
(* behaviour of the synthesis backend, a pre-existing Audio.mp3) is chosen *)
(* in Init and is not changed by the script, except for Audio.mp3.         *)
(***************************************************************************)
EXTENDS Integers, Sequences, FiniteSets

\* ----------------------------------------------------------------- bounds
MaxPages == 3
MaxRuns == 2

\* ------------------------------------------------------ program constants
InputPath == "simple.pdf"
OutputPath == "Audio.mp3"
SEP == <<32>>
LANG == "en"
SLOW == FALSE
MSG == "No extractable text found in the PDF."

\* ------------------------------------------------------- strings (Python)
\* the code points str.strip() removes: the characters for which str.isspace()
\* holds (TAB LF VT FF CR, FS GS RS US, SPACE, NEL, NBSP, OGHAM SPACE MARK,
\* EN QUAD .. HAIR SPACE, LINE and PARAGRAPH SEPARATOR, NARROW NBSP, MEDIUM
\* MATHEMATICAL SPACE, IDEOGRAPHIC SPACE)
WhitespaceAsciiOnly == {9, 10, 12, 13, 32}
Whitespace ==
  {9, 10, 11, 12, 13, 28, 29, 30, 31, 32, 133, 160, 5760,
   8192, 8193, 8194, 8195, 8196, 8197, 8198, 8199, 8200, 8201, 8202,
   8232, 8233, 8239, 8287, 12288}

\* the strings page.extract_text() may return: "", "a", "b", " ", a vertical
\* tab, and "a" between a no-break space and a line feed
Texts ==
  {<<>>, <<97>>, <<98>>, <<32>>, <<11>>, <<160, 97, 10>>}

RECURSIVE LStrip(_)
LStrip(s) ==
  IF s = <<>> THEN <<>>
  ELSE IF Head(s) \in Whitespace THEN LStrip(Tail(s)) ELSE s

RECURSIVE RStrip(_)
RStrip(s) ==
  IF s = <<>> THEN <<>>
  ELSE IF s[Len(s)] \in Whitespace THEN RStrip(SubSeq(s, 1, Len(s) - 1)) ELSE s

\* str.strip(): drop leading and trailing whitespace
Strip(s) == RStrip(LStrip(s))

\* sep.join(list)
RECURSIVE JoinSkipEmpty(_, _)
JoinSkipEmpty(sep, list) ==
  IF list = <<>> THEN <<>>
  ELSE IF Head(list) = <<>> THEN JoinSkipEmpty(sep, Tail(list))
  ELSE IF JoinSkipEmpty(sep, Tail(list)) = <<>> THEN Head(list)
  ELSE Head(list) \o sep \o JoinSkipEmpty(sep, Tail(list))
RECURSIVE Join(_, _)
Join(sep, list) ==
  IF list = <<>> THEN <<>>
  ELSE IF Len(list) = 1 THEN list[1]
  ELSE list[1] \o sep \o Join(sep, Tail(list))

\* truth value of a str in an if statement
Truthy(s) == Len(s) > 0

\* ------------------------------------------------------------ environment
\* outcome of extracting one page: pdf_Reader.pages[i] raises, extract_text()
\* raises, or extract_text() returns a str
PageOutcomes ==
  {[kind |-> "bad_page", text |-> <<>>], [kind |-> "bad_text", text |-> <<>>]}
    \cup {[kind |-> "ok", text |-> t] : t \in Texts}

RECURSIVE SeqsUpTo(_, _)
SeqsUpTo(S, n) ==
  IF n = 0 THEN {<<>>}
  ELSE LET R == SeqsUpTo(S, n - 1)
       IN  R \cup {Append(s, x) : s \in {t \in R : Len(t) = n - 1}, x \in S}

\* the file at InputPath: absent, not a PDF, or a PDF with some pages
InputFiles ==
  {[kind |-> "missing", pages |-> <<>>], [kind |-> "corrupt", pages |-> <<>>]}
    \cup {[kind |-> "valid", pages |-> p] : p \in SeqsUpTo(PageOutcomes, MaxPages)}

\* the (deterministic) synthesis backend: works, gTTS(...) raises, save()
\* raises before touching the file, save() raises after creating the file
Backends == {"ok", "ctor_raises", "save_raises", "save_raises_truncated"}

NoFile == [exists |-> FALSE, data |-> <<>>]
OldFile ==
  [exists |-> TRUE,
   data |-> <<[tag |-> "old", lang |-> "", speed |-> "", text |-> <<>>]>>]
EmptyFile == [exists |-> TRUE, data |-> <<>>]

\* the bytes a deterministic backend produces for a request
Encode(text, lang, slow) ==
  <<[tag |-> "mp3", lang |-> lang,
     speed |-> IF slow THEN "slow" ELSE "normal", text |-> text]>>

VARIABLES
  pdf,         \* environment: the file at InputPath
  backend,     \* environment: behaviour of the synthesis backend
  audio,       \* file system: the file at OutputPath
  pc,          \* position of the script
  err,         \* the unhandled exception that ended the run ("" if none)
  count, i, textList, textString, language, myAudio,   \* script variables
  stdout,      \* lines printed by this run
  attempts,    \* history: page indices attempted by this run, in order
  stages,      \* history: statements executed by this run, in order
  checked,     \* history: the string whose strip() was tested
  synthCalls,  \* history: gTTS(...) calls of this run
  saves,       \* history: completed writes of this run
  audio0,      \* history: the file at OutputPath when this run started
  run,         \* number of the current run
  prev         \* history: outcome of the previous run

envVars == <<pdf, backend>>
progVars == <<count, i, textList, textString, language, myAudio>>
histVars == <<attempts, stages, checked, synthCalls, saves, audio0, run, prev>>
vars == <<pdf, backend, audio, pc, err, count, i, textList, textString,
          language, myAudio, stdout, attempts, stages, checked, synthCalls,
          saves, audio0, run, prev>>

NoAudio == [text |-> <<>>, lang |-> "", slow |-> FALSE]
NoPrev == [pc |-> "", err |-> "", textString |-> <<>>, stdout |-> <<>>, audio |-> NoFile]

\* state of a freshly started interpreter
Fresh ==
  /\ pc = "open"
  /\ err = ""
  /\ count = 0
  /\ i = 0
  /\ textList = <<>>
  /\ textString = <<>>
  /\ language = ""
  /\ myAudio = NoAudio
  /\ stdout = <<>>
  /\ attempts = <<>>
  /\ stages = <<>>
  /\ checked = <<>>
  /\ synthCalls = <<>>
  /\ saves = <<>>

\* a new interpreter process replaces the finished one
StartProcess ==
  /\ pc' = "open"
  /\ err' = ""
  /\ count' = 0
  /\ i' = 0
  /\ textList' = <<>>
  /\ textString' = <<>>
  /\ language' = ""
  /\ myAudio' = NoAudio
  /\ stdout' = <<>>
  /\ attempts' = <<>>
  /\ stages' = <<>>
  /\ checked' = <<>>
  /\ synthCalls' = <<>>
  /\ saves' = <<>>

Init ==
  /\ pdf \in InputFiles
  /\ backend \in Backends
  /\ audio \in {NoFile, OldFile}
  /\ audio0 = audio
  /\ run = 1
  /\ prev = NoPrev
  /\ Fresh

\* an exception nobody catches: the interpreter exits with an error
Raise(e) ==
  /\ pc' = "crashed"
  /\ err' = e

\* pdf_File = open('simple.pdf', 'rb')
OpenFile ==
  /\ pc = "open"
  /\ stages' = Append(stages, "open")
  /\ IF pdf.kind = "missing"
       THEN Raise("open")
       ELSE /\ pc' = "reader"
            /\ err' = err
  /\ UNCHANGED <<envVars, audio, progVars, stdout, attempts, checked,
                 synthCalls, saves, audio0, run, prev>>

\* pdf_Reader = PyPDF2.PdfReader(pdf_File); count = len(pdf_Reader.pages);
\* textList = []
CreateReaderLenient ==
  /\ pc = "reader"
  /\ stages' = Append(stages, "reader")
  /\ pc' = "loop"
  /\ err' = err
  /\ count' = Len(pdf.pages)
  /\ textList' = <<>>
  /\ i' = 0
  /\ UNCHANGED <<envVars, audio, textString, language, myAudio, stdout,
                 attempts, checked, synthCalls, saves, audio0, run, prev>>
CreateReader ==
  /\ pc = "reader"
  /\ stages' = Append(stages, "reader")
  /\ IF pdf.kind = "corrupt"
       THEN /\ Raise("parse")
            /\ UNCHANGED <<count, textList, i>>
       ELSE /\ pc' = "loop"
            /\ err' = err
            /\ count' = Len(pdf.pages)
            /\ textList' = <<>>
            /\ i' = 0
  /\ UNCHANGED <<envVars, audio, textString, language, myAudio, stdout,
                 attempts, checked, synthCalls, saves, audio0, run, prev>>

\* one iteration of: for i in range(count): try: ... except: pass
ExtractPageNoCatch ==
  /\ pc = "loop"
  /\ i < count
  /\ attempts' = Append(attempts, i)
  /\ stages' = Append(stages, "page")
  /\ IF pdf.pages[i + 1].kind = "ok"
       THEN /\ textList' = Append(textList, pdf.pages[i + 1].text)
            /\ i' = i + 1
            /\ UNCHANGED <<pc, err>>
       ELSE /\ Raise("page")
            /\ UNCHANGED <<textList, i>>
  /\ UNCHANGED <<envVars, audio, count, textString, language, myAudio, stdout,
                 checked, synthCalls, saves, audio0, run, prev>>
ExtractPagePlaceholder ==
  /\ pc = "loop"
  /\ i < count
  /\ attempts' = Append(attempts, i)
  /\ stages' = Append(stages, "page")
  /\ textList' = Append(textList, pdf.pages[i + 1].text)
  /\ i' = i + 1
  /\ UNCHANGED <<envVars, audio, pc, err, count, textString, language, myAudio,
                 stdout, checked, synthCalls, saves, audio0, run, prev>>
ExtractPage ==
  /\ pc = "loop"
  /\ i < count
  /\ attempts' = Append(attempts, i)
  /\ stages' = Append(stages, "page")
  /\ textList' = IF pdf.pages[i + 1].kind = "ok"
                   THEN Append(textList, pdf.pages[i + 1].text)
                   ELSE textList
  /\ i' = i + 1
  /\ UNCHANGED <<envVars, audio, pc, err, count, textString, language, myAudio,
                 stdout, checked, synthCalls, saves, audio0, run, prev>>

\* textString = " ".join(textList), reached when range(count) is exhausted
JoinTextEarly ==
  /\ pc = "loop"
  /\ i = count \/ i >= 1
  /\ textString' = Join(SEP, textList)
  /\ stages' = Append(stages, "join")
  /\ pc' = "lang"
  /\ UNCHANGED <<envVars, audio, err, count, i, textList, language, myAudio,
                 stdout, attempts, checked, synthCalls, saves, audio0, run, prev>>
JoinText ==
  /\ pc = "loop"
  /\ i = count
  /\ textString' = Join(SEP, textList)
  /\ stages' = Append(stages, "join")
  /\ pc' = "lang"
  /\ UNCHANGED <<envVars, audio, err, count, i, textList, language, myAudio,
                 stdout, attempts, checked, synthCalls, saves, audio0, run, prev>>

\* language = 'en'
SetLanguage ==
  /\ pc = "lang"
  /\ language' = LANG
  /\ pc' = "check"
  /\ UNCHANGED <<envVars, audio, err, count, i, textList, textString, myAudio,
                 stdout, histVars>>

\* if textString.strip():
CheckText ==
  /\ pc = "check"
  /\ checked' = textString
  /\ stages' = Append(stages, "check")
  /\ pc' = IF Truthy(Strip(textString)) THEN "gtts" ELSE "print"
  /\ UNCHANGED <<envVars, audio, err, progVars, stdout, attempts, synthCalls,
                 saves, audio0, run, prev>>

\* myAudio = gTTS(text=textString, lang=language, slow=False)
CallGTTSFallback ==
  /\ pc = "gtts"
  /\ stages' = Append(stages, "gtts")
  /\ synthCalls' = Append(synthCalls,
                          [text |-> textString, lang |-> language, slow |-> SLOW])
  /\ IF backend = "ctor_raises"
       THEN /\ pc' = "print"
            /\ err' = "ctor"
            /\ UNCHANGED myAudio
       ELSE /\ myAudio' = [text |-> textString, lang |-> language, slow |-> SLOW]
            /\ pc' = "save"
            /\ err' = err
  /\ UNCHANGED <<envVars, audio, count, i, textList, textString, language,
                 stdout, attempts, checked, saves, audio0, run, prev>>
CallGTTSStripped ==
  /\ pc = "gtts"
  /\ stages' = Append(stages, "gtts")
  /\ synthCalls' = Append(synthCalls,
                          [text |-> Strip(textString), lang |-> language, slow |-> SLOW])
  /\ IF backend = "ctor_raises"
       THEN /\ Raise("ctor")
            /\ UNCHANGED myAudio
       ELSE /\ myAudio' = [text |-> Strip(textString), lang |-> language, slow |-> SLOW]
            /\ pc' = "save"
            /\ err' = err
  /\ UNCHANGED <<envVars, audio, count, i, textList, textString, language,
                 stdout, attempts, checked, saves, audio0, run, prev>>
CallGTTS ==
  /\ pc = "gtts"
  /\ stages' = Append(stages, "gtts")
  /\ synthCalls' = Append(synthCalls,
                          [text |-> textString, lang |-> language, slow |-> SLOW])
  /\ IF backend = "ctor_raises"
       THEN /\ Raise("ctor")
            /\ UNCHANGED myAudio
       ELSE /\ myAudio' = [text |-> textString, lang |-> language, slow |-> SLOW]
            /\ pc' = "save"
            /\ err' = err
  /\ UNCHANGED <<envVars, audio, count, i, textList, textString, language,
                 stdout, attempts, checked, saves, audio0, run, prev>>

\* myAudio.save("Audio.mp3")
SaveAudioVerbose ==
  /\ pc = "save"
  /\ stages' = Append(stages, "save")
  /\ CASE backend = "save_raises" ->
            /\ Raise("save")
            /\ UNCHANGED <<audio, saves, stdout>>
       [] backend = "save_raises_truncated" ->
            /\ Raise("save")
            /\ audio' = EmptyFile
            /\ UNCHANGED <<saves, stdout>>
       [] OTHER ->
            /\ audio' = [exists |-> TRUE,
                         data |-> Encode(myAudio.text, myAudio.lang, myAudio.slow)]
            /\ saves' = Append(saves, OutputPath)
            /\ stdout' = Append(stdout, "Saved Audio.mp3")
            /\ pc' = "done"
            /\ err' = err
  /\ UNCHANGED <<envVars, progVars, attempts, checked, synthCalls,
                 audio0, run, prev>>
SaveAudioAppend ==
  /\ pc = "save"
  /\ stages' = Append(stages, "save")
  /\ CASE backend = "save_raises" ->
            /\ Raise("save")
            /\ UNCHANGED <<audio, saves>>
       [] backend = "save_raises_truncated" ->
            /\ Raise("save")
            /\ audio' = [exists |-> TRUE, data |-> audio.data]
            /\ UNCHANGED saves
       [] OTHER ->
            /\ audio' = [exists |-> TRUE,
                         data |-> audio.data
                                    \o Encode(myAudio.text, myAudio.lang, myAudio.slow)]
            /\ saves' = Append(saves, OutputPath)
            /\ pc' = "done"
            /\ err' = err
  /\ UNCHANGED <<envVars, progVars, stdout, attempts, checked, synthCalls,
                 audio0, run, prev>>
SaveAudio ==
  /\ pc = "save"
  /\ stages' = Append(stages, "save")
  /\ CASE backend = "save_raises" ->
            /\ Raise("save")
            /\ UNCHANGED <<audio, saves>>
       [] backend = "save_raises_truncated" ->
            /\ Raise("save")
            /\ audio' = EmptyFile
            /\ UNCHANGED saves
       [] OTHER ->
            /\ audio' = [exists |-> TRUE,
                         data |-> Encode(myAudio.text, myAudio.lang, myAudio.slow)]
            /\ saves' = Append(saves, OutputPath)
            /\ pc' = "done"
            /\ err' = err
  /\ UNCHANGED <<envVars, progVars, stdout, attempts, checked, synthCalls,
                 audio0, run, prev>>

\* print("No extractable text found in the PDF.")
PrintNoText ==
  /\ pc = "print"
  /\ stdout' = Append(stdout, MSG)
  /\ stages' = Append(stages, "print")
  /\ pc' = "done"
  /\ UNCHANGED <<envVars, audio, err, progVars, attempts, checked, synthCalls,
                 saves, audio0, run, prev>>

\* the script is started again on the same input, same backend, same directory
Restart ==
  /\ pc \in {"done", "crashed"}
  /\ run < MaxRuns
  /\ run' = run + 1
  /\ prev' = [pc |-> pc, err |-> err, textString |-> textString,
              stdout |-> stdout, audio |-> audio]
  /\ audio0' = audio
  /\ StartProcess
  /\ UNCHANGED <<envVars, audio>>

Next ==
  \/ OpenFile
  \/ CreateReader
  \/ ExtractPage
  \/ JoinText
  \/ SetLanguage
  \/ CheckText
  \/ CallGTTS
  \/ SaveAudio
  \/ PrintNoText
  \/ Restart

Spec == Init /\ [][Next]_vars

\* the interpreter runs the script statement by statement; every call of the
\* script returns or raises
Step ==
  \/ OpenFile
  \/ CreateReader
  \/ ExtractPage
  \/ JoinText
  \/ SetLanguage
  \/ CheckText
  \/ CallGTTS
  \/ SaveAudio
  \/ PrintNoText

FairSpec == Spec /\ WF_vars(Step)

\* ------------------------------------------------- vocabulary of the claims
Did(s) == \E k \in DOMAIN stages : stages[k] = s
Finished == pc \in {"done", "crashed"}

\* no character other than Unicode whitespace
IsBlank(s) ==
  \A k \in DOMAIN s :
    s[k] \in (9..13) \cup (28..32) \cup {133, 160, 5760} \cup (8192..8202)
               \cup {8232, 8233, 8239, 8287, 12288}

OkPages == {k \in DOMAIN pdf.pages : pdf.pages[k].kind = "ok"}

\* the strings returned by the successful pages, in page order
RECURSIVE OkTexts(_)
OkTexts(pages) ==
  IF pages = <<>> THEN <<>>
  ELSE (IF Head(pages).kind = "ok" THEN <<Head(pages).text>> ELSE <<>>)
         \o OkTexts(Tail(pages))

\* position before fragment k in the single-space join of frags
RECURSIVE Offset(_, _)
Offset(frags, k) ==
  IF k = 1 THEN 0 ELSE Offset(frags, k - 1) + Len(frags[k - 1]) + 1

\* s is the fragments of frags in order, one space between neighbours
IsSpaceJoin(s, frags) ==
  /\ Len(s) = IF frags = <<>> THEN 0 ELSE Offset(frags, Len(frags) + 1) - 1
  /\ \A k \in DOMAIN frags :
       /\ SubSeq(s, Offset(frags, k) + 1, Offset(frags, k) + Len(frags[k])) = frags[k]
       /\ k < Len(frags) => s[Offset(frags, k + 1)] = 32

IsPrefix(s, t) == Len(s) <= Len(t) /\ SubSeq(t, 1, Len(s)) = s

PageA == [kind |-> "ok", text |-> <<97>>]
PageB == [kind |-> "ok", text |-> <<98>>]
PageEmpty == [kind |-> "ok", text |-> <<>>]
PageFails == [kind |-> "bad_text", text |-> <<>>]

Rank(s) ==
  CASE s = "open" -> 1
    [] s = "reader" -> 2
    [] s = "page" -> 3
    [] s = "join" -> 4
    [] s = "check" -> 5
    [] s = "gtts" -> 6
    [] s = "print" -> 6
    [] s = "save" -> 7

\* ------------------------------------------------------------------ claims

\* C1: once the join has run, the joined text is the single-space join of the
\* strings returned by the successful pages in ascending page order; a page
\* that raised contributes nothing, a page that returned "" is kept as an
\* empty fragment with its separator ('a','','b' -> 'a  b'; 'a',<fails>,'b'
\* -> 'a b').
C1_JoinedText ==
  Did("join") =>
    /\ IsSpaceJoin(textString, OkTexts(pdf.pages))
    /\ pdf.pages = <<PageA, PageEmpty, PageB>> => textString = <<97, 32, 32, 98>>
    /\ pdf.pages = <<PageA, PageFails, PageB>> => textString = <<97, 32, 98>>

C1_Witness ==
  /\ Did("join")
  /\ pdf.pages = <<PageA, PageEmpty, PageB>>
  /\ textString = <<97, 32, 32, 98>>

\* C2: a PDF that parses and whose pages all fail or return blank text (also
\* a PDF without pages) ends normally with exactly the no-text line printed,
\* no call of the synthesis backend and Audio.mp3 untouched.
C2_AllBlank ==
  \A k \in DOMAIN pdf.pages :
    pdf.pages[k].kind = "ok" => IsBlank(pdf.pages[k].text)

C2_NoTextSafe ==
  (pdf.kind = "valid" /\ C2_AllBlank) =>
    /\ pc # "crashed" /\ err = ""
    /\ synthCalls = <<>>
    /\ saves = <<>>
    /\ audio = audio0
    /\ stdout = IF pc = "done" THEN <<MSG>> ELSE <<>>

C2_NoText ==
  /\ []C2_NoTextSafe
  /\ [](pdf.kind = "valid" /\ C2_AllBlank /\ pc = "open" => <>(pc = "done"))

C2_Witness ==
  /\ pc = "done"
  /\ pdf.kind = "valid" /\ C2_AllBlank
  /\ pdf.pages = <<[kind |-> "ok", text |-> <<11>>], PageFails,
                   [kind |-> "ok", text |-> <<32>>]>>
  /\ textString = <<11, 32, 32>>
  /\ audio = OldFile
  /\ stdout = <<MSG>>

\* C3: a failing page never ends the run and prints nothing; the fragment
\* list is unchanged for it and the loop goes on with page i+1, so pages
\* 0..count-1 are each attempted once, in ascending order, and the extraction
\* stage completes after count attempts.
C3_LoopInv ==
  /\ err # "page"
  /\ i <= count
  /\ attempts = [k \in 1..i |-> k - 1]
  /\ Did("join") => Len(attempts) = count
  /\ pc = "loop" => stdout = <<>>

C3_FailingPageStep ==
  (pc = "loop" /\ i < count /\ pdf.pages[i + 1].kind # "ok") =>
    /\ pc' = "loop"
    /\ i' = i + 1
    /\ attempts' = Append(attempts, i)
    /\ textList' = textList
    /\ stdout' = stdout

C3_SkipAndContinue ==
  /\ []C3_LoopInv
  /\ [][C3_FailingPageStep]_vars
  /\ [](pc = "loop" => <>(Did("join") /\ Len(attempts) = count))

C3_Witness ==
  /\ Did("join")
  /\ count = 3
  /\ pdf.pages[1].kind = "bad_page" /\ pdf.pages[2].kind = "bad_text"
  /\ attempts = <<0, 1, 2>>
  /\ Len(textList) = 1

\* C4: a run that ends without an unhandled error has either written the
\* audio file and printed nothing (joined text not blank) or printed the
\* no-text line once and written nothing (joined text blank).
C4_ExactlyOneOutcome ==
  pc = "done" =>
    \/ /\ saves = <<"Audio.mp3">> /\ audio.exists
       /\ stdout = <<>>
       /\ ~IsBlank(textString)
    \/ /\ saves = <<>> /\ audio = audio0
       /\ stdout = <<"No extractable text found in the PDF.">>
       /\ IsBlank(textString)

C4_Witness ==
  /\ pc = "done"
  /\ saves = <<"Audio.mp3">>
  /\ stdout = <<>>
  /\ audio0 = NoFile /\ audio.exists

\* C5: when the input file cannot be opened or is not a PDF, the run ends in
\* an error state with no page attempted, no synthesis call, Audio.mp3
\* untouched and nothing printed.
C5_BadInputSafe ==
  pdf.kind # "valid" =>
    /\ pc \in {"open", "reader", "crashed"}
    /\ pdf.kind = "missing" => pc # "reader"
    /\ pc = "crashed" => err = (IF pdf.kind = "missing" THEN "open" ELSE "parse")
    /\ attempts = <<>> /\ ~Did("page")
    /\ synthCalls = <<>>
    /\ saves = <<>> /\ audio = audio0
    /\ stdout = <<>>

C5_BadInput ==
  /\ []C5_BadInputSafe
  /\ [](pdf.kind # "valid" /\ pc = "open" => <>(pc = "crashed"))

C5_Witness ==
  /\ pdf.kind = "corrupt"
  /\ pc = "crashed" /\ err = "parse"
  /\ audio = OldFile

\* C6: a failure of gTTS(...) or save() happens only on the non-blank branch,
\* ends the run in an error state, and in that run the no-text line is not
\* printed and synthesis is not tried again.
C6_SynthFailureSafe ==
  /\ Did("gtts") => ~IsBlank(checked)
  /\ err \in {"ctor", "save"} =>
       /\ pc = "crashed"
       /\ Did("gtts")
       /\ stdout = <<>> /\ ~Did("print")
       /\ Len(synthCalls) = 1
       /\ saves = <<>>

C6_FailingSynthStep ==
  /\ (pc = "gtts" /\ backend = "ctor_raises") => pc' = "crashed" /\ err' = "ctor"
  /\ (pc = "save" /\ backend \in {"save_raises", "save_raises_truncated"}) =>
       pc' = "crashed" /\ err' = "save"

C6_SynthFailure ==
  /\ []C6_SynthFailureSafe
  /\ [][C6_FailingSynthStep]_vars

C6_Witness ==
  /\ pc = "crashed" /\ err = "save"
  /\ Len(synthCalls) = 1
  /\ audio = EmptyFile /\ audio0 = OldFile

\* C7: every synthesis call gets the joined string that was tested, untrimmed
\* and unchanged, with language 'en' and slow = false; it is made only when
\* the trimmed string is not empty, and the result goes to Audio.mp3.
C7_SynthRequest ==
  /\ \A k \in DOMAIN synthCalls :
       /\ synthCalls[k].text = checked
       /\ synthCalls[k].text = textString
       /\ synthCalls[k].lang = "en"
       /\ synthCalls[k].slow = FALSE
       /\ ~IsBlank(synthCalls[k].text)
  /\ \A k \in DOMAIN saves : saves[k] = "Audio.mp3"
  /\ saves # <<>> =>
       audio = [exists |-> TRUE,
                data |-> <<[tag |-> "mp3", lang |-> "en", speed |-> "normal",
                            text |-> checked]>>]

C7_Witness ==
  /\ pc = "done"
  /\ Len(synthCalls) = 1
  /\ checked = <<32, 32, 97, 32, 11>>
  /\ saves = <<"Audio.mp3">>

\* C8: the fragment list is never longer than the number of pages attempted,
\* which is never more than count; after the loop its length is the number
\* of pages that succeeded; within a run it only grows by appending.
C8_ListInv ==
  /\ Len(textList) <= Len(attempts)
  /\ Len(attempts) <= count
  /\ Did("join") => Len(textList) = Cardinality(OkPages)

C8_AppendOnly == run' = run => IsPrefix(textList, textList')

C8_FragmentList ==
  /\ []C8_ListInv
  /\ [][C8_AppendOnly]_vars

C8_Witness ==
  /\ Did("join")
  /\ count = 3
  /\ Len(textList) = 2
  /\ pdf.pages[2].kind = "bad_page"

\* C9: the statements run in the order open, reader, pages, join, check,
\* synthesis, none revisited: no page before the page count is read, join and
\* check only after all count pages were attempted, at most one synthesis
\* call and only after the join.
C9_StageOrder ==
  /\ \A j, k \in DOMAIN stages :
       j < k => \/ Rank(stages[j]) < Rank(stages[k])
                \/ stages[j] = "page" /\ stages[k] = "page"
  /\ Did("page") => Did("open") /\ Did("reader") /\ count = Len(pdf.pages)
  /\ (Did("join") \/ Did("check")) => Len(attempts) = count
  /\ Len(synthCalls) <= 1
  /\ Did("gtts") => Did("join") /\ Did("check")

C9_Witness ==
  stages = <<"open", "reader", "page", "page", "page", "join", "check", "gtts", "save">>

\* C10: with deterministic extraction and a deterministic backend, a second
\* run on the same input ends like the first: same joined text, same branch,
\* and the same content of Audio.mp3 (overwritten, not appended to).
C10_SecondRunSame ==
  (run >= 2 /\ Finished) =>
    /\ textString = prev.textString
    /\ pc = prev.pc /\ err = prev.err
    /\ stdout = prev.stdout
    /\ audio = prev.audio

C10_Witness ==
  /\ run = 2 /\ pc = "done"
  /\ saves = <<"Audio.mp3">>
  /\ prev.pc = "done" /\ prev.audio.exists
  /\ audio = prev.audio

TypeOK ==
  /\ pc \in {"open", "reader", "loop", "lang", "check", "gtts", "save",
             "print", "done", "crashed"}
  /\ run \in 1..MaxRuns
====
